---------------------------- MODULE Spec2Model ----------------------------
(* A state-machine model of sensapex.py: the UMP session (its reentrant   *)
(* lock, transport handle, stored timeout and axis-count cache), the      *)
(* PollThread background loop with its observer table, and the libump     *)
(* transport library seen through the calls sensapex.py makes on it.      *)
EXTENDS Integers, Sequences, FiniteSets, TLC

(***************************************************************************)
(* Bounds of the model.                                                    *)
(***************************************************************************)
NumDevices == 2      \* device IDs 0 .. NumDevices-1 are addressed
MaxPos == 1          \* a device's z coordinate ranges over 0 .. MaxPos
MaxQueue == 2        \* packets pending in the socket buffer
MaxFail == 1         \* transient transport failures in one behaviour
MaxOpens == 2        \* successful ump_open calls in one behaviour
MaxCloses == 2       \* close() calls in one behaviour
MaxObs == 2          \* observers in one device's callback list
MaxRegs == 3         \* add_callback and remove_callback calls in one behaviour
MaxOthers == 2       \* further UMP objects constructed in one behaviour

(***************************************************************************)
(* Program constants.                                                      *)
(***************************************************************************)
LIBUMP_MAX_MANIPULATORS == 254
LIBUMP_TIMEOUT == -3
DefaultTimeout == 200          \* UMP.__init__: self._timeout = 200
ScanTimeout == 20              \* list_devices: self.set_timeout(20)
PollInterval == 30             \* PollThread interval=0.03 s, in ms
PollPosTimeout == 20           \* run: ump.get_pos(dev_id, timeout=20)
DefaultAxes == 4               \* axis_count without ump_get_axis_count_ext

Callers == {"t1", "t2"}
Poller == "poller"
Threads == Callers \cup {Poller}
NoThread == "none"
Devices == 0 .. (NumDevices - 1)
Positions == 0 .. MaxPos
Observers == {"a", "b"}

\* Optional values (Python None) are sequences of length at most one.
None == << >>
Some(x) == << x >>

VARIABLES
  h,             \* UMP.h: the transport handle, 0 for None
  lock,          \* UMP.lock (threading.RLock): [owner, depth]
  self_timeout,  \* UMP._timeout
  axis_counts,   \* UMP._axis_counts: device -> optional count
  has_axis_count,\* UMP._ump_has_axis_count
  atexit,        \* number of close callbacks registered with atexit
  exiting,       \* the interpreter is running its atexit callbacks
  lib,           \* libump state: ump_state fields and its open handles
  net,           \* the devices and the socket buffer
  pollState,     \* PollThread as a thread: "initial", "running", "dead"
  pollStop,      \* PollThread._stop
  callbacks,     \* PollThread.callbacks: device -> list of observers
  last_pos,      \* run's local last_pos: device -> position
  th,            \* per thread: position in its operation and its locals
  hist,          \* history of observer invocations and transport use
  single,        \* UMP._single: 0 for None, 1 for this session, 2 another
  others,        \* number of further UMP objects constructed, each open
  plock          \* PollThread.lock (threading.RLock): the thread holding it

vars == << h, lock, self_timeout, axis_counts, has_axis_count, atexit,
           exiting, lib, net, pollState, pollStop, callbacks, last_pos,
           th, hist, single, others, plock >>

procVars == << has_axis_count, single, others >>
sessVars == << h, lock, self_timeout, axis_counts >>
pollVars == << pollState, pollStop, callbacks, last_pos, plock >>

(***************************************************************************)
(* Exceptions.  errno is the UMPError's errno attribute (None for the OS   *)
(* error raised on last-error code -1).                                    *)
(***************************************************************************)
NoExc == [type |-> "none", errno |-> None]
NotOpen == [type |-> "TypeError", errno |-> None]
UMPError(errno) == [type |-> "UMPError", errno |-> errno]
OtherError(name) == [type |-> name, errno |-> None]

(***************************************************************************)
(* The transport library.  LibCall(fn, args) is the set of outcomes of one *)
(* call of the primitive fn: the library state and the network after it,   *)
(* the value it returns and the out-parameters it fills.                   *)
(***************************************************************************)
TroubleCodes == {-1, LIBUMP_TIMEOUT}
AbsentCodes == {-5, -6}
AxesOf(dev) == 3 + (dev % 2)

Outcome(l, n, r, out) == [lib |-> l, net |-> n, rval |-> r, xyzw |-> out]

\* A primitive fails: a negative return value, the code in last_error.
LibFailure(codes) ==
  { Outcome([lib EXCEPT !.last_error = e], net, -1, None) : e \in codes }

\* A flaky transport may fail any request; a sound one fails at most
\* MaxFail times and works from then on.
CanFail == net.flaky \/ net.fails < MaxFail
Failed == IF net.flaky THEN net ELSE [net EXCEPT !.fails = @ + 1]

LibTrouble ==
  IF CanFail
  THEN { [o EXCEPT !.net = Failed] : o \in LibFailure(TroubleCodes) }
  ELSE {}

\* ump_receive(h, timelimit): with timelimit 0 at most one pending packet
\* is read, otherwise every packet pending; each packet read updates the
\* cached position of its device and last_device_received.
Drained(n) ==
  LET q == SubSeq(net.queue, 1, n)
      srcs == { q[k] : k \in 1 .. n }
  IN  Outcome([lib EXCEPT
                 !.last_device_received = IF n = 0 THEN @ ELSE q[n],
                 !.last_positions =
                     [d \in Devices |-> IF d \in srcs THEN net.pos[d] ELSE @[d]]],
              [net EXCEPT !.queue = SubSeq(@, n + 1, Len(@))],
              n, None)

LibReceive(timelimit) ==
  IF timelimit = 0
  THEN { Drained(IF Len(net.queue) = 0 THEN 0 ELSE 1) }
  ELSE { Drained(Len(net.queue)) }

\* ump_get_positions_ext(h, dev, timeout, &x, &y, &z, &w, &e): with timeout
\* 0 the cached position, otherwise a position no older than timeout.
LibGetPositions(dev, timeout) ==
  IF dev \notin net.present
  THEN LibFailure(AbsentCodes)
  ELSE LET l == IF timeout = 0 THEN lib
                ELSE [lib EXCEPT !.last_positions[dev] = net.pos[dev]]
       IN  { Outcome(l, net, 0, << 0, 0, l.last_positions[dev], 0 >>) }

LibSetTimeout(value) ==
  { Outcome([lib EXCEPT !.timeout = value], net, 0, None) }

LibGetAxisCount(dev) == { Outcome(lib, net, AxesOf(dev), None) }

LibPlain == { Outcome(lib, net, 0, None) }

\* ump_get_status_ext(h, dev): the status word of the device, and
\* ump_is_busy_status(status): whether that word says the device moves.
LibGetStatus == { Outcome(lib, net, status, None) : status \in {0, 1} }
LibIsBusyStatus(status) == status # 0

LibCall(fn, args) ==
  LibTrouble \cup
  CASE fn = "ump_receive" -> LibReceive(args[1])
    [] fn = "ump_get_positions_ext" -> LibGetPositions(args[1], args[2])
    [] fn = "ump_set_timeout" -> LibSetTimeout(args[1])
    [] fn = "ump_get_axis_count_ext" -> LibGetAxisCount(args[1])
    [] fn = "ump_get_status_ext" -> LibGetStatus
    [] OTHER -> LibPlain

\* ump_open: a fresh handle, or a non-positive pointer on failure.
LibOpen(ok) ==
  IF ok THEN [lib EXCEPT !.nopen = @ + 1, !.open = @ \cup {lib.nopen + 1},
                         !.timeout = self_timeout]
        ELSE lib

\* ump_close(handle)
LibClose(handle) ==
  [lib EXCEPT !.open = @ \ {handle}, !.closes = Append(@, handle)]

(***************************************************************************)
(* The session lock (threading.RLock).                                     *)
(***************************************************************************)
\* A lock that excludes nobody: what C1 rules out.
CanAcquireUnlocked(t) == TRUE

CanAcquire(t) == lock.owner \in {NoThread, t}
Acquired(t) == [owner |-> t, depth |-> lock.depth + 1]
Released ==
  IF lock.depth = 1 THEN [owner |-> NoThread, depth |-> 0]
                    ELSE [lock EXCEPT !.depth = @ - 1]

(***************************************************************************)
(* Threads.  pc is the statement a thread is at in its operation; while    *)
(* cs is not "none" the thread is inside UMP.call and pc is where it goes  *)
(* on afterwards; stk holds the return points of enclosing operations.     *)
(***************************************************************************)
InitThread ==
  [pc |-> "idle", cs |-> "none", stk |-> << >>, fn |-> "", args |-> << >>,
   harg |-> 0, rval |-> 0, xyzw |-> None, exc |-> NoExc,
   req_err |-> None, pend |-> NoExc, devset |-> {},
   dev |-> 0, old_timeout |-> 0, i |-> 0, max_id |-> 0, devs |-> << >>,
   d |-> None, drained |-> {}, ret |-> None, alive |-> FALSE,
   snap |-> {}, left |-> {}, new_pos |-> None, old_pos |-> None, idx |-> 0,
   timeout |-> 0, pos |-> << >>, speed |-> 0, block |-> FALSE,
   busy |-> None, cb |-> ""]

\* A thread back at "idle" has left its operation: its locals are gone.
Locals(r) == IF r.pc = "idle" /\ r.cs = "none" THEN InitThread ELSE r
Set(t, upd) == th' = [th EXCEPT ![t] = Locals(upd @@ @)]
Idle(t) == th[t].pc = "idle" /\ th[t].cs = "none"
At(t, label) == th[t].pc = label /\ th[t].cs = "none"
Raised(t) == th[t].exc # NoExc

\* self.call(fn, *args), continuing at label k
Invoke(fn, args, k) ==
  [pc |-> k, cs |-> "acq", fn |-> fn, args |-> args, exc |-> NoExc,
   rval |-> 0, harg |-> 0, req_err |-> None]

(***************************************************************************)
(* UMP.call                                                                *)
(***************************************************************************)
\* A call that does not look at the handle: what C6 rules out.
IsOpenUnchecked == TRUE

\* if self.h is None
IsOpen == h # 0

\* with self.lock: if self.h is None: raise TypeError("UMP is not open.")
\* else enter the primitive with self.h

CallBegin(t) ==
  /\ th[t].cs = "acq"
  /\ CanAcquire(t)
  /\ IF ~IsOpen
       THEN /\ Set(t, [cs |-> "none", exc |-> NotOpen])
            /\ lock' = lock
       ELSE /\ Set(t, [cs |-> "inflight", harg |-> h])
            /\ lock' = Acquired(t)
  /\ UNCHANGED << h, self_timeout, axis_counts, procVars, atexit,
                  exiting, lib, net, pollVars, hist >>

\* the primitive returns rval; a value >= 0 is returned to the caller
CallEnd(t) ==
  /\ th[t].cs = "inflight"
  /\ \E o \in LibCall(th[t].fn, th[t].args) :
       /\ lib' = o.lib
       /\ net' = o.net
       /\ IF o.rval < 0
            THEN /\ Set(t, [cs |-> "err", rval |-> o.rval,
                            req_err |-> Some(o.lib.last_error)])
                 /\ lock' = lock
            ELSE /\ Set(t, [cs |-> "none", rval |-> o.rval,
                            xyzw |-> IF o.xyzw = None THEN th[t].xyzw
                                                      ELSE o.xyzw])
                 /\ lock' = Released
  /\ UNCHANGED << h, self_timeout, axis_counts, procVars, atexit,
                  exiting, pollVars, hist >>

\* err = ump_last_error(h); raise UMPError (errno None for err == -1)
CallRaise(t) ==
  /\ th[t].cs = "err"
  /\ LET err == lib.last_error
     IN  Set(t, [cs |-> "none",
                 exc |-> IF err = -1 THEN UMPError(None)
                                     ELSE UMPError(Some(err))])
  /\ lock' = Released
  /\ UNCHANGED << h, self_timeout, axis_counts, procVars, atexit,
                  exiting, lib, net, pollVars, hist >>

Call(t) == CallBegin(t) \/ CallEnd(t) \/ CallRaise(t)

(***************************************************************************)
(* Operations of UMP that caller threads run.                              *)
(***************************************************************************)
Ready(t) == Idle(t) /\ ~exiting

\* Leave the current operation for the return point on top of the stack.
Return(t, upd) ==
  Set(t, upd @@ [pc |-> Head(th[t].stk), stk |-> Tail(th[t].stk)])

\* stop_all, stop, select, set_active, ...: one call of one primitive
SimpleCommand(t) ==
  /\ Ready(t)
  /\ Set(t, Invoke("ump_stop_all", << >>, "idle"))
  /\ UNCHANGED << sessVars, procVars, atexit, exiting, lib, net,
                  pollVars, hist >>

\* set_timeout: self._timeout = timeout, then the call
SetTimeout(t, timeout) ==
  /\ Ready(t)
  /\ self_timeout' = timeout
  /\ Set(t, Invoke("ump_set_timeout", << timeout >>, "idle"))
  /\ UNCHANGED << h, lock, axis_counts, procVars, atexit, exiting,
                  lib, net, pollVars, hist >>

\* get_pos(dev, timeout): timeout None stands for self._timeout
GetPosCall(dev, timeout, k) ==
  Invoke("ump_get_positions_ext", << dev, timeout >>, "get_pos_r")
    @@ [dev |-> dev, timeout |-> timeout, stk |-> k]

GetPos(t, dev, timeout) ==
  /\ Ready(t)
  /\ Set(t, GetPosCall(dev, IF timeout = None THEN self_timeout
                                               ELSE timeout[1],
                       << "get_pos_done" >>))
  /\ UNCHANGED << sessVars, procVars, atexit, exiting, lib, net,
                  pollVars, hist >>

\* The caller of get_pos has the list it returned, or its exception.
GetPosDone(t) ==
  /\ At(t, "get_pos_done")
  /\ Set(t, [pc |-> "idle"])
  /\ UNCHANGED << sessVars, procVars, atexit, exiting, lib, net,
                  pollVars, hist >>

\* n_axes = self.axis_count(dev): 4 without the query, else the cached
\* count, else the query
GetPosAxes(t) ==
  /\ At(t, "get_pos_r")
  /\ LET c == axis_counts[th[t].dev]
     IN  IF Raised(t) THEN Return(t, [exc |-> th[t].exc])
         ELSE IF ~has_axis_count
           THEN Return(t, [ret |-> Some(SubSeq(th[t].xyzw, 1, DefaultAxes))])
         ELSE IF c # None
           THEN Return(t, [ret |-> Some(SubSeq(th[t].xyzw, 1, c[1]))])
         ELSE Set(t, Invoke("ump_get_axis_count_ext", << th[t].dev >>,
                            "axis_count_r"))
  /\ UNCHANGED << sessVars, procVars, atexit, exiting, lib, net,
                  pollVars, hist >>

\* self._axis_counts[dev] = c; return the first c coordinates
AxisCountStore(t) ==
  /\ At(t, "axis_count_r")
  /\ IF Raised(t)
       THEN /\ Return(t, [exc |-> th[t].exc])
            /\ axis_counts' = axis_counts
       ELSE /\ axis_counts' = [axis_counts EXCEPT ![th[t].dev] = Some(th[t].rval)]
            /\ Return(t, [ret |-> Some(SubSeq(th[t].xyzw, 1, th[t].rval))])
  /\ UNCHANGED << h, lock, self_timeout, procVars, atexit, exiting,
                  lib, net, pollVars, hist >>

\* recv: count = self.call('ump_receive', 0)
RecvCall(k) == Invoke("ump_receive", << 0 >>, "recv_r") @@ [stk |-> k]

Recv(t) ==
  /\ Ready(t)
  /\ Set(t, RecvCall(<< "idle" >>))
  /\ UNCHANGED << sessVars, procVars, atexit, exiting, lib, net,
                  pollVars, hist >>

\* if count == 0: raise UMPError(-3);
\* return self.h.contents.last_device_received
RecvReturn(t) ==
  /\ At(t, "recv_r")
  /\ IF Raised(t) THEN Return(t, [exc |-> th[t].exc])
     ELSE IF th[t].rval = 0
       THEN Return(t, [exc |-> UMPError(Some(LIBUMP_TIMEOUT))])
     ELSE IF h = 0
       THEN Return(t, [exc |-> OtherError("AttributeError")])
     ELSE Return(t, [ret |-> Some(lib.last_device_received)])
  /\ UNCHANGED << sessVars, procVars, atexit, exiting, lib, net,
                  pollVars, hist >>

\* is_busy: with self.lock: self.call('ump_receive', 10)
IsBusy(t, dev) ==
  /\ Ready(t)
  /\ CanAcquire(t)
  /\ lock' = Acquired(t)
  /\ Set(t, Invoke("ump_receive", << 10 >>, "is_busy_1") @@ [dev |-> dev])
  /\ UNCHANGED << h, self_timeout, axis_counts, procVars, atexit,
                  exiting, lib, net, pollVars, hist >>

\* status = self.call('ump_get_status_ext', c_int(dev))
IsBusyStatus(t) ==
  /\ At(t, "is_busy_1")
  /\ IF Raised(t)
       THEN /\ Set(t, [pc |-> "idle"])
            /\ lock' = Released
       ELSE /\ Set(t, Invoke("ump_get_status_ext", << th[t].dev >>, "is_busy_2"))
            /\ lock' = lock
  /\ UNCHANGED << h, self_timeout, axis_counts, procVars, atexit,
                  exiting, lib, net, pollVars, hist >>

\* return bool(self.lib.ump_is_busy_status(c_int(status)))
IsBusyReturn(t) ==
  /\ At(t, "is_busy_2")
  /\ Set(t, [pc |-> "idle",
             ret |-> IF Raised(t) THEN None ELSE Some(th[t].rval)])
  /\ lock' = Released
  /\ UNCHANGED << h, self_timeout, axis_counts, procVars, atexit,
                  exiting, lib, net, pollVars, hist >>

(***************************************************************************)
(* UMP.goto_pos                                                            *)
(***************************************************************************)
Abs(x) == IF x < 0 THEN -x ELSE x
Max(a, b) == IF a > b THEN a ELSE b
Min(a, b) == IF a < b THEN a ELSE b

RECURSIVE SumSq(_)
SumSq(v) == IF v = << >> THEN 0 ELSE Head(v) * Head(v) + SumSq(Tail(v))

\* pos = list(pos) + [0] * (4-len(pos))
Pad4(v) == v \o [k \in 1 .. (4 - Len(v)) |-> 0]

\* int(a / sqrt(n)) for a >= 0 and n >= 1: the largest k with k*sqrt(n) <= a
FloorOverRoot(a, n) ==
  CHOOSE k \in 0 .. a : k * k * n <= a * a /\ (k + 1) * (k + 1) * n > a * a

\* diff = [float(p-c) for p,c in zip(pos, current_pos)];
\* dist = max(1, np.linalg.norm(diff));
\* speed = [max(32, speed * abs(d / dist)) for d in diff];
\* speed = speed + [0] * (4-len(speed)), each sent as c_int(int(x))
AxisSpeeds(speed, pos, current_pos) ==
  LET n == Min(Len(pos), Len(current_pos))
      diff == [k \in 1 .. n |-> pos[k] - current_pos[k]]
      sq == Max(1, SumSq(diff))
  IN  Pad4([k \in 1 .. n |-> Max(32, FloorOverRoot(speed * Abs(diff[k]), sq))])

\* args = [dev] + pos + [speed,speed,speed,speed, mode]: what is sent when
\* the position cannot be read
FlatSpeeds(speed) == << speed, speed, speed, speed >>

\* goto_pos(dev, pos, speed, block): speed = max(1, speed);
\* current_pos = self.get_pos(dev)
GotoPos(t, dev, pos, speed, block) ==
  /\ Ready(t)
  /\ Set(t, GetPosCall(dev, 0, << "goto_args" >>)
            @@ [pos |-> Pad4(pos), speed |-> Max(1, speed), block |-> block,
                busy |-> None])
  /\ UNCHANGED << sessVars, procVars, atexit, exiting, lib, net, pollVars,
                  hist >>

\* except: pass; with self.lock: self.call('ump_goto_position_ext2', *args)
GotoArgs(t) ==
  /\ At(t, "goto_args")
  /\ CanAcquire(t)
  /\ lock' = Acquired(t)
  /\ LET speeds == IF Raised(t) THEN FlatSpeeds(th[t].speed)
                   ELSE AxisSpeeds(th[t].speed, th[t].pos, th[t].ret[1])
     IN  Set(t, Invoke("ump_goto_position_ext2",
                       << th[t].dev, th[t].pos, speeds, 1 >>, "goto_recv"))
  /\ UNCHANGED << h, self_timeout, axis_counts, procVars, atexit, exiting,
                  lib, net, pollVars, hist >>

\* self.call('ump_receive', 1)
GotoRecv(t) ==
  /\ At(t, "goto_recv")
  /\ IF Raised(t)
       THEN /\ Set(t, [pc |-> "idle"])
            /\ lock' = Released
       ELSE /\ Set(t, Invoke("ump_receive", << 1 >>, "goto_sent"))
            /\ lock' = lock
  /\ UNCHANGED << h, self_timeout, axis_counts, procVars, atexit, exiting,
                  lib, net, pollVars, hist >>

\* the with block ends; if block: while True: ...
GotoSent(t) ==
  /\ At(t, "goto_sent")
  /\ lock' = Released
  /\ Set(t, [pc |-> IF ~Raised(t) /\ th[t].block THEN "goto_wait" ELSE "idle"])
  /\ UNCHANGED << h, self_timeout, axis_counts, procVars, atexit, exiting,
                  lib, net, pollVars, hist >>

\* if not self.is_busy(dev): is_busy's with self.lock and its receive
GotoWait(t) ==
  /\ At(t, "goto_wait")
  /\ CanAcquire(t)
  /\ lock' = Acquired(t)
  /\ Set(t, Invoke("ump_receive", << 10 >>, "goto_busy_1"))
  /\ UNCHANGED << h, self_timeout, axis_counts, procVars, atexit, exiting,
                  lib, net, pollVars, hist >>

\* is_busy's status = self.call('ump_get_status_ext', c_int(dev))
GotoBusyStatus(t) ==
  /\ At(t, "goto_busy_1")
  /\ IF Raised(t)
       THEN /\ Set(t, [pc |-> "idle"])
            /\ lock' = Released
       ELSE /\ Set(t, Invoke("ump_get_status_ext", << th[t].dev >>,
                             "goto_busy_2"))
            /\ lock' = lock
  /\ UNCHANGED << h, self_timeout, axis_counts, procVars, atexit, exiting,
                  lib, net, pollVars, hist >>

\* A wait that ends whatever is_busy says: what C17 rules out.
GotoLeavesAnyway(busy) == TRUE

\* if not self.is_busy(dev): break
GotoLeaves(busy) == ~busy

\* is_busy returns; break, or time.sleep(0.005) and ask again;
\* after the loop pos2 = np.array(self.get_pos(dev))
GotoBusyReturn(t) ==
  /\ At(t, "goto_busy_2")
  /\ lock' = Released
  /\ LET busy == LibIsBusyStatus(th[t].rval)
     IN  IF Raised(t) THEN Set(t, [pc |-> "idle"])
         ELSE IF GotoLeaves(busy)
           THEN Set(t, GetPosCall(th[t].dev, 0, << "goto_done" >>)
                       @@ [busy |-> Some(busy)])
         ELSE Set(t, [pc |-> "goto_wait", busy |-> Some(busy)])
  /\ UNCHANGED << h, self_timeout, axis_counts, procVars, atexit, exiting,
                  lib, net, pollVars, hist >>

\* dif = pos2 - np.array(pos[:3]); goto_pos returns
GotoDone(t) ==
  /\ At(t, "goto_done")
  /\ Set(t, [pc |-> "idle"])
  /\ UNCHANGED << sessVars, procVars, atexit, exiting, lib, net, pollVars,
                  hist >>

(***************************************************************************)
(* UMP.get_ump and UMP(...)                                                *)
(***************************************************************************)
\* UMP.__init__ of a further object: if self._single is not None: raise
\* Exception("Won't create another UMP object..."); ...; self.open(...)
Constructed ==
  /\ others' = others + 1
  /\ lib' = [lib EXCEPT !.nopen = @ + 1, !.open = @ \cup {lib.nopen + 1}]

NotConstructed ==
  /\ others' = others
  /\ lib' = lib

\* UMP(...) called directly
NewUMP(t) ==
  /\ Ready(t)
  /\ others < MaxOthers
  /\ IF single # 0 THEN NotConstructed ELSE Constructed
  /\ th' = th
  /\ UNCHANGED << sessVars, has_axis_count, single, atexit, exiting, net,
                  pollVars, hist >>

\* get_ump: if cls._single is None:
GetUmp(t) ==
  /\ Ready(t)
  /\ others < MaxOthers
  /\ Set(t, [pc |-> IF single = 0 THEN "get_ump_new" ELSE "idle"])
  /\ UNCHANGED << sessVars, procVars, atexit, exiting, lib, net, pollVars,
                  hist >>

\* cls._single = UMP(...); return cls._single
GetUmpNew(t) ==
  /\ At(t, "get_ump_new")
  /\ IF single # 0 THEN NotConstructed /\ single' = single
                   ELSE Constructed /\ single' = 2
  /\ Set(t, [pc |-> "idle"])
  /\ UNCHANGED << sessVars, has_axis_count, atexit, exiting, net, pollVars,
                  hist >>

(***************************************************************************)
(* UMP.open and UMP.close                                                  *)
(***************************************************************************)
\* if self.h is not None: raise TypeError("UMP is already open.")
Open(t) ==
  /\ Ready(t)
  /\ lib.nopen < MaxOpens
  /\ Set(t, (IF h # 0 THEN [pc |-> "idle", exc |-> OtherError("AlreadyOpen")]
                      ELSE [pc |-> "open_call"]))
  /\ UNCHANGED << sessVars, procVars, atexit, exiting, lib, net,
                  pollVars, hist >>

\* ptr = ump_open(...); if ptr <= 0: raise RuntimeError;
\* self.h = pointer(...); atexit.register(self.close)
OpenCall(t) ==
  /\ At(t, "open_call")
  /\ \E ok \in BOOLEAN :
       /\ lib' = LibOpen(ok)
       /\ h' = IF ok THEN lib.nopen + 1 ELSE h
       /\ atexit' = IF ok THEN atexit + 1 ELSE atexit
       /\ Set(t, [pc |-> "idle",
                  exc |-> IF ok THEN NoExc ELSE OtherError("RuntimeError")])
  /\ UNCHANGED << lock, self_timeout, axis_counts, procVars, exiting,
                  net, pollVars, hist >>

CloseLabels == {"close_stop", "close_join", "close_lock", "close_release"}
ClosesBegun ==
  Len(lib.closes) + Cardinality({ t \in Callers : th[t].pc \in CloseLabels })

\* close: if self.poller.is_alive():
CloseEnter ==
  [alive |-> pollState = "running",
   pc |-> IF pollState = "running" THEN "close_stop" ELSE "close_lock"]

Close(t) ==
  /\ Ready(t)
  /\ ClosesBegun < MaxCloses
  /\ Set(t, CloseEnter)
  /\ UNCHANGED << sessVars, procVars, atexit, exiting, lib, net,
                  pollVars, hist >>

\* The interpreter exits and runs a close registered by open.
AtExitClose(t) ==
  /\ \A u \in Callers : Idle(u)
  /\ atexit > 0
  /\ ClosesBegun < MaxCloses
  /\ atexit' = atexit - 1
  /\ exiting' = TRUE
  /\ Set(t, CloseEnter)
  /\ UNCHANGED << sessVars, procVars, lib, net, pollVars, hist >>

\* self.poller.stop()
CloseStop(t) ==
  /\ At(t, "close_stop")
  /\ pollStop' = TRUE
  /\ Set(t, [pc |-> "close_join"])
  /\ UNCHANGED << sessVars, procVars, atexit, exiting, lib, net,
                  pollState, callbacks, last_pos, hist,
                  plock >>

\* A join that returns at once: what C2 rules out.
JoinedAtOnce == TRUE

\* self.poller.join()
Joined == pollState = "dead"

CloseJoin(t) ==
  /\ At(t, "close_join")
  /\ Joined
  /\ Set(t, [pc |-> "close_lock"])
  /\ UNCHANGED << sessVars, procVars, atexit, exiting, lib, net,
                  pollVars, hist >>

\* with self.lock:
CloseLock(t) ==
  /\ At(t, "close_lock")
  /\ CanAcquire(t)
  /\ lock' = Acquired(t)
  /\ Set(t, [pc |-> "close_release"])
  /\ UNCHANGED << h, self_timeout, axis_counts, procVars, atexit,
                  exiting, lib, net, pollVars, hist >>

\* self.lib.ump_close(self.h); self.h = None
CloseRelease(t) ==
  /\ At(t, "close_release")
  /\ lib' = LibClose(h)
  /\ h' = 0
  /\ lock' = Released
  /\ Set(t, [pc |-> "idle"])
  /\ UNCHANGED << self_timeout, axis_counts, procVars, atexit,
                  exiting, net, pollVars, hist >>

(***************************************************************************)
(* PollThread                                                              *)
(***************************************************************************)
\* start: self._stop = False; threading.Thread.start(self), which raises
\* RuntimeError for a thread started before
PollerStart(t) ==
  /\ Ready(t)
  /\ pollStop' = FALSE
  /\ pollState' = IF pollState = "initial" THEN "running" ELSE pollState
  /\ th' = [th EXCEPT
       ![Poller] = IF pollState = "initial" THEN [pc |-> "p_top"] @@ @ ELSE @]
  /\ UNCHANGED << sessVars, procVars, atexit, exiting, lib, net,
                  callbacks, last_pos, hist,
                  plock >>

\* stop: self._stop = True
PollerStop(t) ==
  /\ Ready(t)
  /\ pollStop' = TRUE
  /\ th' = th
  /\ UNCHANGED << sessVars, procVars, atexit, exiting, lib, net,
                  pollState, callbacks, last_pos, hist,
                  plock >>

\* add_callback: self.callbacks.setdefault(dev_id, []).append(callback)
AddCallback(t, dev_id, cb) ==
  /\ Ready(t)
  /\ plock = NoThread
  /\ hist.regs < MaxRegs
  /\ dev_id \in DOMAIN callbacks => Len(callbacks[dev_id]) < MaxObs
  /\ callbacks' = IF dev_id \in DOMAIN callbacks
                  THEN [callbacks EXCEPT ![dev_id] = Append(@, cb)]
                  ELSE (dev_id :> << cb >>) @@ callbacks
  /\ th' = th
  /\ hist' = [hist EXCEPT !.regs = @ + 1]
  /\ UNCHANGED << sessVars, procVars, atexit, exiting, lib, net,
                  pollState, pollStop, last_pos,
                  plock >>

\* SensapexDevice(devid, n_axes=n_axes): self.ump = UMP.get_ump();
\* if n_axes is not None: self.ump._axis_counts[devid] = n_axes;
\* self.ump.poller.add_callback(devid, self._change_callback)
ManualAxes == {None, Some(2)}

SensapexDevice(t, devid, n_axes) ==
  /\ Ready(t)
  /\ plock = NoThread
  /\ single = 1
  /\ hist.regs < MaxRegs
  /\ devid \in DOMAIN callbacks => Len(callbacks[devid]) < MaxObs
  /\ axis_counts' = IF n_axes # None THEN [axis_counts EXCEPT ![devid] = n_axes]
                                     ELSE axis_counts
  /\ callbacks' = IF devid \in DOMAIN callbacks
                  THEN [callbacks EXCEPT ![devid] = Append(@, "a")]
                  ELSE (devid :> << "a" >>) @@ callbacks
  /\ hist' = [hist EXCEPT !.regs = @ + 1,
                          !.override[devid] = IF n_axes # None THEN n_axes ELSE @]
  /\ th' = th
  /\ UNCHANGED << h, lock, self_timeout, procVars, atexit, exiting, lib,
                  net, pollState, pollStop, last_pos,
                  plock >>

\* list.remove(x): the list without the first occurrence of x
RECURSIVE ListRemove(_, _)
ListRemove(list, x) ==
  IF list = << >> THEN << >>
  ELSE IF Head(list) = x THEN Tail(list)
  ELSE << Head(list) >> \o ListRemove(Tail(list), x)

InList(list, x) == \E k \in 1 .. Len(list) : list[k] = x

\* remove_callback: self.callbacks[dev_id].remove(callback)
RemoveCallback(t, dev_id, cb) ==
  /\ Ready(t)
  /\ plock = NoThread
  /\ hist.regs < MaxRegs
  /\ hist' = [hist EXCEPT !.regs = @ + 1]
  /\ IF dev_id \notin DOMAIN callbacks
       THEN /\ th' = th    \* KeyError
            /\ callbacks' = callbacks
     ELSE IF ~InList(callbacks[dev_id], cb)
       THEN /\ th' = th    \* ValueError
            /\ callbacks' = callbacks
     ELSE /\ th' = th
          /\ callbacks' = [callbacks EXCEPT ![dev_id] = ListRemove(@, cb)]
  /\ UNCHANGED << sessVars, procVars, atexit, exiting, lib, net,
                  pollState, pollStop, last_pos,
                  plock >>

\* run: while True: if self._stop: break;
\*      ump.call('ump_receive', c_int(int(self.interval*1000)))
PollerTop ==
  /\ pollState = "running"
  /\ At(Poller, "p_top")
  /\ IF pollStop
       THEN /\ pollState' = "dead"
            /\ Set(Poller, [pc |-> "done"])
       ELSE /\ pollState' = pollState
            /\ Set(Poller, Invoke("ump_receive", << PollInterval >>, "p_snap"))
  /\ UNCHANGED << sessVars, procVars, atexit, exiting, lib, net,
                  pollStop, callbacks, last_pos, hist,
                  plock >>

\* with self.lock: callbacks = self.callbacks.copy()
\* The copy is of the dict: its values are the lists of self.callbacks.
PollerSnapshot ==
  /\ At(Poller, "p_snap")
  /\ plock = NoThread
  /\ IF Raised(Poller)
       THEN /\ Set(Poller, [pc |-> "p_except"])
            /\ hist' = hist
       ELSE /\ Set(Poller, [pc |-> "p_next", snap |-> DOMAIN callbacks,
                            left |-> DOMAIN callbacks])
            /\ hist' = [hist EXCEPT !.lists = callbacks]
  /\ UNCHANGED << sessVars, procVars, atexit, exiting, lib, net,
                  pollVars >>

\* for dev_id, dev_callbacks in callbacks.items():
\*     if len(callbacks) == 0: continue
\*     new_pos = ump.get_pos(dev_id, timeout=20)
PollerNext ==
  /\ At(Poller, "p_next")
  /\ IF th[Poller].left = {}
       THEN Set(Poller, [pc |-> "p_top"])
       ELSE \E dev_id \in th[Poller].left :
              IF Cardinality(th[Poller].snap) = 0
              THEN Set(Poller, [left |-> th[Poller].left \ {dev_id}])
              ELSE Set(Poller, GetPosCall(dev_id, PollPosTimeout, << "p_cmp" >>)
                               @@ [left |-> th[Poller].left \ {dev_id}])
  /\ UNCHANGED << sessVars, procVars, atexit, exiting, lib, net,
                  pollVars, hist >>

\* old_pos = last_pos.get(dev_id); if new_pos != old_pos:
PollerCompare ==
  /\ At(Poller, "p_cmp")
  /\ LET dev_id == th[Poller].dev
         new_pos == th[Poller].ret
         old_pos == last_pos[dev_id]
     IN  IF Raised(Poller)
         THEN /\ Set(Poller, [pc |-> "p_except"])
              /\ hist' = hist
         ELSE /\ Set(Poller, [new_pos |-> new_pos, old_pos |-> old_pos, idx |-> 0,
                              pc |-> IF new_pos # old_pos THEN "p_dispatch"
                                                          ELSE "p_next"])
              /\ hist' = [hist EXCEPT !.fired = << >>]
  /\ UNCHANGED << sessVars, procVars, atexit, exiting, lib, net,
                  pollVars >>

\* for cb in dev_callbacks: cb(dev_id, new_pos, old_pos)
\* The list iterated is the one add_callback and remove_callback change.
PollerDispatch ==
  /\ At(Poller, "p_dispatch")
  /\ LET dev_id == th[Poller].dev
         dev_callbacks == callbacks[dev_id]
         idx == th[Poller].idx
     IN  IF idx >= Len(dev_callbacks)
         THEN /\ Set(Poller, [pc |-> "p_next"])
              /\ hist' = [hist EXCEPT !.seen[dev_id] = th[Poller].new_pos]
              /\ net' = net
         ELSE /\ hist' = [hist EXCEPT !.fired = Append(@, dev_callbacks[idx + 1])]
              /\ \/ /\ Set(Poller, [idx |-> idx + 1])
                    /\ net' = net
                 \/ /\ CanFail
                    /\ net' = Failed
                    /\ Set(Poller, [pc |-> "p_except"])
  /\ UNCHANGED << sessVars, procVars, atexit, exiting, lib, pollVars >>

\* A failure that ends the thread: what C4 rules out.
PollerExceptEnds ==
  /\ At(Poller, "p_except")
  /\ pollState' = "dead"
  /\ Set(Poller, [pc |-> "done", exc |-> NoExc])
  /\ UNCHANGED << sessVars, procVars, atexit, exiting, lib, net,
                  pollStop, callbacks, last_pos, hist,
                  plock >>

\* except: print(...); sys.excepthook(...); time.sleep(1)
PollerExcept ==
  /\ At(Poller, "p_except")
  /\ Set(Poller, [pc |-> "p_top", exc |-> NoExc])
  /\ UNCHANGED << sessVars, procVars, atexit, exiting, lib, net,
                  pollVars, hist >>

(***************************************************************************)
(* PollThread.lock step by step: the with blocks of add_callback,          *)
(* remove_callback and run as an acquisition and a body that releases.     *)
(***************************************************************************)
\* add_callback(dev_id, callback) is called and arrives at with self.lock
AddCallbackCall(t, dev_id, cb) ==
  /\ Ready(t)
  /\ hist.regs < MaxRegs
  /\ dev_id \in DOMAIN callbacks => Len(callbacks[dev_id]) < MaxObs
  /\ Set(t, [pc |-> "cb_add", dev |-> dev_id, cb |-> cb])
  /\ hist' = [hist EXCEPT !.regs = @ + 1]
  /\ UNCHANGED << sessVars, procVars, atexit, exiting, lib, net, pollVars >>

\* remove_callback(dev_id, callback) is called and arrives at with self.lock
RemoveCallbackCall(t, dev_id, cb) ==
  /\ Ready(t)
  /\ hist.regs < MaxRegs
  /\ Set(t, [pc |-> "cb_rm", dev |-> dev_id, cb |-> cb])
  /\ hist' = [hist EXCEPT !.regs = @ + 1]
  /\ UNCHANGED << sessVars, procVars, atexit, exiting, lib, net, pollVars >>

\* with self.lock: of add_callback and remove_callback
RegLockEnter(t) ==
  /\ At(t, "cb_add") \/ At(t, "cb_rm")
  /\ plock \in {NoThread, t}
  /\ plock' = t
  /\ Set(t, [pc |-> IF th[t].pc = "cb_add" THEN "cb_add_in" ELSE "cb_rm_in"])
  /\ UNCHANGED << sessVars, procVars, atexit, exiting, lib, net, pollState,
                  pollStop, callbacks, last_pos, hist >>

\* self.callbacks.setdefault(dev_id, []).append(callback); the with ends
AddCallbackBody(t) ==
  /\ At(t, "cb_add_in")
  /\ LET dev_id == th[t].dev
     IN  callbacks' = IF dev_id \in DOMAIN callbacks
                      THEN [callbacks EXCEPT ![dev_id] = Append(@, th[t].cb)]
                      ELSE (dev_id :> << th[t].cb >>) @@ callbacks
  /\ plock' = NoThread
  /\ Set(t, [pc |-> "idle"])
  /\ UNCHANGED << sessVars, procVars, atexit, exiting, lib, net, pollState,
                  pollStop, last_pos, hist >>

\* self.callbacks[dev_id].remove(callback), or KeyError or ValueError;
\* the with ends
RemoveCallbackBody(t) ==
  /\ At(t, "cb_rm_in")
  /\ LET dev_id == th[t].dev
     IN  callbacks' = IF dev_id \in DOMAIN callbacks
                      THEN [callbacks EXCEPT ![dev_id] = ListRemove(@, th[t].cb)]
                      ELSE callbacks
  /\ plock' = NoThread
  /\ Set(t, [pc |-> "idle"])
  /\ UNCHANGED << sessVars, procVars, atexit, exiting, lib, net, pollState,
                  pollStop, last_pos, hist >>

\* run: the receive returned or raised; with self.lock:
PollerSnapshotEnter ==
  /\ At(Poller, "p_snap")
  /\ IF Raised(Poller)
       THEN /\ Set(Poller, [pc |-> "p_except"])
            /\ plock' = plock
       ELSE /\ plock \in {NoThread, Poller}
            /\ plock' = Poller
            /\ Set(Poller, [pc |-> "p_copy"])
  /\ UNCHANGED << sessVars, procVars, atexit, exiting, lib, net, pollState,
                  pollStop, callbacks, last_pos, hist >>

\* A poller that keeps the lock of its with block while it goes on to
\* fetch positions: what C22 rules out.
PollerSnapshotKeepsLock ==
  /\ At(Poller, "p_copy")
  /\ Set(Poller, [pc |-> "p_next", snap |-> DOMAIN callbacks,
                  left |-> DOMAIN callbacks])
  /\ hist' = [hist EXCEPT !.lists = callbacks]
  /\ UNCHANGED << sessVars, procVars, atexit, exiting, lib, net, pollVars >>

\* callbacks = self.callbacks.copy(); the with ends
PollerSnapshotCopy ==
  /\ At(Poller, "p_copy")
  /\ Set(Poller, [pc |-> "p_next", snap |-> DOMAIN callbacks,
                  left |-> DOMAIN callbacks])
  /\ hist' = [hist EXCEPT !.lists = callbacks]
  /\ plock' = NoThread
  /\ UNCHANGED << sessVars, procVars, atexit, exiting, lib, net, pollState,
                  pollStop, callbacks, last_pos >>

(***************************************************************************)
(* The devices: one moves, one sends a packet reporting its position.      *)
(***************************************************************************)
DeviceMove(dev, z) ==
  /\ dev \in net.present
  /\ z # net.pos[dev]
  /\ net' = [net EXCEPT !.pos[dev] = z]
  /\ UNCHANGED << sessVars, procVars, atexit, exiting, lib, pollVars,
                  th, hist >>

DevicePacket(dev) ==
  /\ dev \in net.present
  /\ Len(net.queue) < MaxQueue
  /\ net' = [net EXCEPT !.queue = Append(@, dev)]
  /\ UNCHANGED << sessVars, procVars, atexit, exiting, lib, pollVars,
                  th, hist >>

(***************************************************************************)
(* UMP.list_devices and UMP.recv_all                                       *)
(***************************************************************************)

\* finally: self.set_timeout(old_timeout), with the exception in flight
Restore(t, label, pending) ==
  Invoke("ump_set_timeout", << th[t].old_timeout >>, label)
    @@ [pend |-> pending]

\* The finally clause is done: its own exception, or the pending one, goes
\* to the caller as the with block releases the lock.
RestoreDone(t, value) ==
  /\ lock' = Released
  /\ Set(t, [pc |-> "idle",
             exc |-> IF Raised(t) THEN th[t].exc ELSE th[t].pend,
             ret |-> IF Raised(t) \/ th[t].pend # NoExc THEN None
                                                         ELSE Some(value)])

\* Raised before the try: the with block releases the lock.
RaisedBeforeTry(t) ==
  /\ lock' = Released
  /\ Set(t, [pc |-> "idle"])

\* list_devices: devs = []; with self.lock: old_timeout = self._timeout
ListDevices(t, max_id) ==
  /\ Ready(t)
  /\ CanAcquire(t)
  /\ lock' = Acquired(t)
  /\ Set(t, [pc |-> "ld_set", max_id |-> max_id, devs |-> << >>, i |-> 0,
             old_timeout |-> self_timeout, pend |-> NoExc])
  /\ UNCHANGED << h, self_timeout, axis_counts, procVars, atexit,
                  exiting, lib, net, pollVars, hist >>

\* self.set_timeout(20)
ListDevicesSet(t) ==
  /\ At(t, "ld_set")
  /\ self_timeout' = ScanTimeout
  /\ Set(t, Invoke("ump_set_timeout", << ScanTimeout >>, "ld_try"))
  /\ UNCHANGED << h, lock, axis_counts, procVars, atexit, exiting,
                  lib, net, pollVars, hist >>

\* for i in range(min(max_id, LIBUMP_MAX_MANIPULATORS)): p = self.get_pos(i)
\* and, the range exhausted, the finally clause
ListDevicesProbe(t, i, devs) ==
  IF i < Min(th[t].max_id, LIBUMP_MAX_MANIPULATORS)
  THEN /\ Set(t, GetPosCall(i, 0, << "ld_got" >>) @@ [i |-> i, devs |-> devs])
       /\ self_timeout' = self_timeout
  ELSE /\ Set(t, Restore(t, "ld_fin", NoExc) @@ [devs |-> devs])
       /\ self_timeout' = th[t].old_timeout

ListDevicesTry(t) ==
  /\ At(t, "ld_try")
  /\ IF Raised(t)
       THEN /\ RaisedBeforeTry(t)
            /\ self_timeout' = self_timeout
       ELSE /\ ListDevicesProbe(t, 0, << >>)
            /\ lock' = lock
  /\ UNCHANGED << h, axis_counts, procVars, atexit, exiting, lib, net,
                  pollVars, hist >>

\* A scan that takes every error for absence: what C11 rules out.
IsAbsenceOrTrouble(exc) == exc.type = "UMPError"

\* Codes list_devices takes for "device does not exist"
IsAbsence(exc) ==
  exc.type = "UMPError" /\ exc.errno \in {Some(-5), Some(-6)}

\* devs.append(i) / except UMPError as ex: if ex.errno in (-5, -6):
\* continue; else: raise
ListDevicesGot(t) ==
  /\ At(t, "ld_got")
  /\ LET i == th[t].i
     IN  IF ~Raised(t)
         THEN ListDevicesProbe(t, i + 1, Append(th[t].devs, i))
         ELSE IF IsAbsence(th[t].exc)
         THEN ListDevicesProbe(t, i + 1, th[t].devs)
         ELSE /\ Set(t, Restore(t, "ld_fin", th[t].exc))
              /\ self_timeout' = th[t].old_timeout
  /\ UNCHANGED << h, lock, axis_counts, procVars, atexit, exiting,
                  lib, net, pollVars, hist >>

\* return devs
ListDevicesReturn(t) ==
  /\ At(t, "ld_fin")
  /\ RestoreDone(t, th[t].devs)
  /\ UNCHANGED << h, self_timeout, axis_counts, procVars, atexit,
                  exiting, lib, net, pollVars, hist >>

\* recv_all: devs = set(); with self.lock: old_timeout = self._timeout
RecvAll(t) ==
  /\ Ready(t)
  /\ CanAcquire(t)
  /\ lock' = Acquired(t)
  /\ Set(t, [pc |-> "ra_set", devset |-> {}, d |-> None,
             old_timeout |-> self_timeout, pend |-> NoExc])
  /\ UNCHANGED << h, self_timeout, axis_counts, procVars, atexit,
                  exiting, lib, net, pollVars, hist >>

\* self.set_timeout(0)
RecvAllSet(t) ==
  /\ At(t, "ra_set")
  /\ self_timeout' = 0
  /\ Set(t, Invoke("ump_set_timeout", << 0 >>, "ra_try"))
  /\ UNCHANGED << h, lock, axis_counts, procVars, atexit, exiting,
                  lib, net, pollVars, hist >>

\* try: while True: try: d = self.recv()
RecvAllTry(t) ==
  /\ At(t, "ra_try")
  /\ IF Raised(t)
       THEN RaisedBeforeTry(t)
       ELSE /\ Set(t, RecvCall(<< "ra_got" >>))
            /\ lock' = lock
  /\ UNCHANGED << h, self_timeout, axis_counts, procVars, atexit,
                  exiting, lib, net, pollVars, hist >>

\* if d is None or d > 0: devs.add(d)
Collected(devs, d) == IF d[1] > 0 THEN devs \cup {d[1]} ELSE devs

\* except UMPError as exc: if exc.errno == -3: break
BreaksLoop(exc) == exc.errno = Some(LIBUMP_TIMEOUT)

\* One pass of the while loop after recv returned or raised.  A UMPError
\* that does not break the loop is dropped and d keeps the value it had,
\* or is unbound on the first pass.
RecvAllGot(t) ==
  /\ At(t, "ra_got")
  /\ LET e == th[t].exc
         d == IF Raised(t) THEN th[t].d ELSE th[t].ret
     IN  IF Raised(t) /\ e.type # "UMPError"
         THEN /\ Set(t, Restore(t, "ra_fin", e))
              /\ self_timeout' = th[t].old_timeout
         ELSE IF Raised(t) /\ BreaksLoop(e)
         THEN /\ Set(t, Restore(t, "ra_fin", NoExc))
              /\ self_timeout' = th[t].old_timeout
         ELSE IF d = None
         THEN /\ Set(t, Restore(t, "ra_fin", OtherError("UnboundLocalError")))
              /\ self_timeout' = th[t].old_timeout
         ELSE /\ Set(t, RecvCall(<< "ra_got" >>)
                        @@ [d |-> d, devset |-> Collected(th[t].devset, d),
                            drained |-> IF Raised(t) THEN th[t].drained
                                        ELSE th[t].drained \cup {d[1]}])
              /\ self_timeout' = self_timeout
  /\ UNCHANGED << h, lock, axis_counts, procVars, atexit, exiting,
                  lib, net, pollVars, hist >>

\* return list(devs)
RecvAllReturn(t) ==
  /\ At(t, "ra_fin")
  /\ RestoreDone(t, th[t].devset)
  /\ UNCHANGED << h, self_timeout, axis_counts, procVars, atexit,
                  exiting, lib, net, pollVars, hist >>

(***************************************************************************)
(* The state after UMP(...) is constructed: the session open with handle   *)
(* 1, the poller created and, with start_poller, started.                  *)
(***************************************************************************)
InitLib ==
  [timeout |-> DefaultTimeout, last_error |-> 0, last_device_received |-> 0,
   last_positions |-> [d \in Devices |-> 0],
   open |-> {1}, nopen |-> 1, closes |-> << >>]

InitNet(present, flaky, queue) ==
  [pos |-> [d \in Devices |-> 0], queue |-> queue, present |-> present,
   flaky |-> flaky, fails |-> 0]

InitHist ==
  [seen |-> [d \in Devices |-> None], lists |-> << >>, fired |-> << >>,
   regs |-> 0, override |-> [d \in Devices |-> None]]

InitSession(start_poller, present, axis_query, flaky, queue, table) ==
  /\ h = 1
  /\ lock = [owner |-> NoThread, depth |-> 0]
  /\ self_timeout = DefaultTimeout
  /\ axis_counts = [d \in Devices |-> None]
  /\ has_axis_count = axis_query
  /\ atexit = 1
  /\ exiting = FALSE
  /\ lib = InitLib
  /\ net = InitNet(present, flaky, queue)
  /\ pollState = IF start_poller THEN "running" ELSE "initial"
  /\ pollStop = FALSE
  /\ callbacks = table
  /\ last_pos = [d \in Devices |-> None]
  /\ plock = NoThread
  /\ th = [t \in Threads |->
             IF t = Poller /\ start_poller THEN [pc |-> "p_top"] @@ InitThread
                                           ELSE InitThread]
  /\ hist = InitHist

\* The session was made by UMP.get_ump(), as SensapexDevice makes it.
InitWith(start_poller, present, axis_query, flaky, queue, table) ==
  /\ InitSession(start_poller, present, axis_query, flaky, queue, table)
  /\ single = 1
  /\ others = 0

UserTimeouts == {50}
GetPosTimeouts == {Some(0), None}

\* Commands and queries on the open session
SessionOp(t) ==
  \/ SimpleCommand(t)
  \/ Recv(t)
  \/ RecvReturn(t)
  \/ \E dev \in Devices : IsBusy(t, dev)
  \/ IsBusyStatus(t)
  \/ IsBusyReturn(t)

\* close
CloseOp(t) ==
  \/ Close(t)
  \/ CloseStop(t)
  \/ CloseJoin(t)
  \/ CloseLock(t)
  \/ CloseRelease(t)

\* open, the close run at exit, and the poller's start and stop
LifecycleOp(t) ==
  \/ Open(t)
  \/ OpenCall(t)
  \/ AtExitClose(t)
  \/ PollerStart(t)
  \/ PollerStop(t)

RegistryOp(t) ==
  \/ \E dev \in Devices, cb \in Observers : AddCallback(t, dev, cb)
  \/ \E dev \in Devices, cb \in Observers : RemoveCallback(t, dev, cb)

CompositeOp(t) ==
  \/ \E max_id \in 0 .. NumDevices : ListDevices(t, max_id)
  \/ ListDevicesSet(t)
  \/ ListDevicesTry(t)
  \/ ListDevicesGot(t)
  \/ ListDevicesReturn(t)
  \/ RecvAll(t)
  \/ RecvAllSet(t)
  \/ RecvAllTry(t)
  \/ RecvAllGot(t)
  \/ RecvAllReturn(t)
  \/ RecvReturn(t)
  \/ GetPosAxes(t)
  \/ AxisCountStore(t)

PollerLoop ==
  \/ PollerTop
  \/ PollerSnapshot
  \/ PollerNext
  \/ PollerExcept

Moves == \E dev \in Devices, z \in Positions : DeviceMove(dev, z)
Packets == \E dev \in Devices : DevicePacket(dev)

(***************************************************************************)
(* Spec: caller threads send commands, receive and close the session while *)
(* the poller drains the packets; one packet is pending at the start and   *)
(* any request may fail.                                                   *)
(***************************************************************************)
Init ==
  \E start_poller \in BOOLEAN :
     InitWith(start_poller, Devices, TRUE, TRUE, << 1 >>, << >>)

Next ==
  \/ \E t \in Threads : Call(t)
  \/ \E t \in Callers : SessionOp(t) \/ CloseOp(t)
  \/ PollerLoop

Spec == Init /\ [][Next]_vars

(***************************************************************************)
(* SpecLife: the session is closed, opened again and closed at exit, and   *)
(* the poller started and stopped, while commands are sent.                *)
(***************************************************************************)
NextLife ==
  \/ \E t \in Threads : Call(t)
  \/ \E t \in Callers : SimpleCommand(t) \/ CloseOp(t) \/ LifecycleOp(t)
  \/ PollerLoop

SpecLife == Init /\ [][NextLife]_vars

(***************************************************************************)
(* SpecPoll: observers are registered and removed while the poller runs    *)
(* and the devices move.                                                   *)
(***************************************************************************)
InitPoll == InitWith(TRUE, Devices, FALSE, FALSE, << >>, << >>)

NextPoll ==
  \/ Call(Poller)
  \/ \E t \in Callers : RegistryOp(t)
  \/ PollerLoop
  \/ GetPosAxes(Poller)
  \/ PollerCompare
  \/ PollerDispatch
  \/ Moves

SpecPoll == InitPoll /\ [][NextPoll]_vars

(***************************************************************************)
(* SpecFair: the poller, scheduled fairly, serves the observer of the       *)
(* watched device while the device moves, the transport and the observer   *)
(* fail at most MaxFail times and a caller may stop the poller.            *)
(***************************************************************************)
Watched == {0}

InitFair ==
  InitWith(TRUE, Watched, FALSE, FALSE, << >>, [d \in Watched |-> << "a" >>])

PollerStep ==
  \/ Call(Poller)
  \/ PollerLoop
  \/ GetPosAxes(Poller)
  \/ PollerCompare
  \/ PollerDispatch

NextFair ==
  \/ PollerStep
  \/ Moves
  \/ \E t \in Callers : PollerStop(t)

SpecFair == InitFair /\ [][NextFair]_vars /\ WF_vars(PollerStep)

(***************************************************************************)
(* SpecComp: caller threads run list_devices and recv_all, change the      *)
(* timeout and close the session, some devices absent.                     *)
(***************************************************************************)
InitComp ==
  \E present \in SUBSET Devices :
     InitWith(FALSE, present, TRUE, FALSE, << >>, << >>)

NextComp ==
  \/ \E t \in Callers : Call(t)
  \/ \E t \in Callers : CompositeOp(t)
  \/ \E t \in Callers, timeout \in UserTimeouts : SetTimeout(t, timeout)
  \/ \E t \in Callers : Close(t) \/ CloseLock(t) \/ CloseRelease(t)
  \/ Packets

SpecComp == InitComp /\ [][NextComp]_vars

(***************************************************************************)
(* SpecScan: one caller thread scans for devices, some of them absent,     *)
(* while the other changes the timeout, sends commands and closes the      *)
(* session; the transport fails at most MaxFail times.                     *)
(***************************************************************************)
Scanner == "t1"
Bystander == "t2"

ScanOp(t) ==
  \/ \E max_id \in 0 .. NumDevices : ListDevices(t, max_id)
  \/ ListDevicesSet(t)
  \/ ListDevicesTry(t)
  \/ ListDevicesGot(t)
  \/ ListDevicesReturn(t)
  \/ GetPosAxes(t)
  \/ AxisCountStore(t)

NextScan ==
  \/ \E t \in Callers : Call(t)
  \/ ScanOp(Scanner)
  \/ SimpleCommand(Bystander)
  \/ \E timeout \in UserTimeouts : SetTimeout(Bystander, timeout)
  \/ Close(Bystander) \/ CloseLock(Bystander) \/ CloseRelease(Bystander)

SpecScan == InitComp /\ [][NextScan]_vars

(***************************************************************************)
(* SpecPos: caller threads read positions, from the cache and with the     *)
(* stored timeout, and create device handles with and without a manual     *)
(* axis count; the poller is not started, the transport may or may not     *)
(* have the axis-count query and fails at most MaxFail times.              *)
(***************************************************************************)
InitPos ==
  \E axis_query \in BOOLEAN :
     InitWith(FALSE, Devices, axis_query, FALSE, << >>, << >>)

PosOp(t) ==
  \/ \E dev \in Devices, timeout \in GetPosTimeouts : GetPos(t, dev, timeout)
  \/ GetPosAxes(t)
  \/ AxisCountStore(t)
  \/ GetPosDone(t)
  \/ \E dev \in Devices, n_axes \in ManualAxes : SensapexDevice(t, dev, n_axes)

NextPos ==
  \/ \E t \in Callers : Call(t)
  \/ \E t \in Callers : PosOp(t)

SpecPos == InitPos /\ [][NextPos]_vars

(***************************************************************************)
(* SpecSingle: caller threads ask get_ump for the session and construct    *)
(* UMP objects directly, send commands and close the session; the first    *)
(* session was made by get_ump or directly.                                *)
(***************************************************************************)
InitSingle ==
  /\ InitSession(FALSE, Devices, TRUE, FALSE, << >>, << >>)
  /\ single \in {0, 1}
  /\ others = 0

SingleOp(t) ==
  \/ GetUmp(t)
  \/ GetUmpNew(t)
  \/ NewUMP(t)

NextSingle ==
  \/ \E t \in Callers : Call(t)
  \/ \E t \in Callers : SingleOp(t)
  \/ \E t \in Callers : SimpleCommand(t)
  \/ \E t \in Callers : Close(t) \/ CloseLock(t) \/ CloseRelease(t)

SpecSingle == InitSingle /\ [][NextSingle]_vars

(***************************************************************************)
(* SpecMove: one caller thread moves devices, waiting or not for the move  *)
(* to end, while the other sends commands and the poller drains packets;   *)
(* the transport fails at most MaxFail times.                              *)
(***************************************************************************)
Mover == "t1"
MoveSpeeds == {0, 50}
Targets == { << 0, 0, z >> : z \in Positions }

InitMove == InitWith(TRUE, Devices, TRUE, FALSE, << >>, << >>)

MoveOp(t) ==
  \/ \E dev \in Devices, pos \in Targets, speed \in MoveSpeeds,
        block \in BOOLEAN : GotoPos(t, dev, pos, speed, block)
  \/ GetPosAxes(t)
  \/ AxisCountStore(t)
  \/ GotoArgs(t)
  \/ GotoRecv(t)
  \/ GotoSent(t)
  \/ GotoWait(t)
  \/ GotoBusyStatus(t)
  \/ GotoBusyReturn(t)
  \/ GotoDone(t)

NextMove ==
  \/ \E t \in Threads : Call(t)
  \/ MoveOp(Mover)
  \/ SimpleCommand(Bystander)
  \/ PollerLoop

SpecMove == InitMove /\ [][NextMove]_vars

(***************************************************************************)
(* SpecRecv: caller threads receive one packet at a time with recv while   *)
(* the poller drains the packets the devices send; the transport fails at  *)
(* most MaxFail times.                                                     *)
(***************************************************************************)
InitRecv == InitWith(TRUE, Devices, FALSE, FALSE, << >>, << >>)

NextRecv ==
  \/ \E t \in Threads : Call(t)
  \/ \E t \in Callers : Recv(t) \/ RecvReturn(t)
  \/ PollerLoop
  \/ Packets

SpecRecv == InitRecv /\ [][NextRecv]_vars

(***************************************************************************)
(* SpecLocks: a caller thread sends commands and registers and removes     *)
(* observers of the watched device while the poller runs; both locks are   *)
(* taken step by step, the transport and the observers fail at most        *)
(* MaxFail times, every thread that can take a step eventually takes one   *)
(* and a lock that is free again and again is eventually given to each     *)
(* thread waiting for it.                                                  *)
(***************************************************************************)
Registrar == "t1"
LockUsers == {Registrar, Poller}

InitLocks == InitWith(TRUE, Watched, FALSE, FALSE, << >>, << >>)

PollerLockStep ==
  \/ PollerTop
  \/ PollerSnapshotEnter
  \/ PollerSnapshotCopy
  \/ PollerNext
  \/ GetPosAxes(Poller)
  \/ PollerCompare
  \/ PollerDispatch
  \/ PollerExcept

CallerLockStep(t) ==
  \/ RegLockEnter(t)
  \/ AddCallbackBody(t)
  \/ RemoveCallbackBody(t)

NextLocks ==
  \/ \E t \in LockUsers : Call(t)
  \/ PollerLockStep
  \/ CallerLockStep(Registrar)
  \/ SimpleCommand(Registrar)
  \/ \E dev \in Watched : AddCallbackCall(Registrar, dev, "a")
  \/ \E dev \in Watched : RemoveCallbackCall(Registrar, dev, "a")

FairLocks ==
  /\ WF_vars(Call(Registrar) \/ CallerLockStep(Registrar))
  /\ WF_vars(Call(Poller) \/ PollerLockStep)
  /\ SF_vars(CallBegin(Registrar)) /\ SF_vars(RegLockEnter(Registrar))
  /\ SF_vars(CallBegin(Poller)) /\ SF_vars(PollerSnapshotEnter)

SpecLocks == InitLocks /\ [][NextLocks]_vars /\ FairLocks

(***************************************************************************)
(* Properties                                                              *)
(***************************************************************************)
InRequest(t) == th[t].cs \in {"inflight", "err"}
InTransport(t) == InRequest(t) \/ At(t, "close_release")
Position(z) == Some(<< 0, 0, z, 0 >>)
IsPrefix(a, b) == Len(a) <= Len(b) /\ a = SubSeq(b, 1, Len(a))

\* C1: every thread inside a transport request, reading the last-error
\* code of its failed request, or about to release the handle in close,
\* owns the session lock, so at most one thread is there at a time; and
\* the last-error code a thread is about to read is the one its own
\* request left.
C1_LockedTransport ==
  /\ \A t \in Threads : InTransport(t) => lock.owner = t /\ lock.depth > 0
  /\ Cardinality({ t \in Threads : InTransport(t) }) <= 1
  /\ \A t \in Threads :
       th[t].cs = "err" => th[t].req_err = Some(lib.last_error)

\* Inside is_busy, which holds the lock itself, a request has failed and
\* its thread is about to read the error code while another thread waits
\* for the lock.
C1_Witness ==
  \E t, u \in Threads :
     /\ t # u
     /\ th[t].cs = "err"
     /\ th[u].cs = "acq"
     /\ lock.depth = 2

\* C2: a close() that found the poller alive acquires the lock and
\* releases the handle only once the poller thread has terminated, so the
\* poller is dead when that close() returns; and a request of the poller
\* is always on a handle that is open in the transport library.
C2_CloseAfterJoin ==
  /\ \A t \in Callers :
       th[t].alive /\ th[t].pc \in {"close_lock", "close_release"}
          => pollState = "dead"
  /\ InRequest(Poller) => th[Poller].harg \in lib.open

\* close() found the poller alive and is about to release the handle.
C2_Witness ==
  \E t \in Callers : th[t].alive /\ At(t, "close_release") /\ h # 0

\* C3: the poller invokes the observers of a device only with a position
\* that differs from the one it saw for that device before, and passes
\* that earlier position as the old one.
C3_OnlyOnChange ==
  At(Poller, "p_dispatch") /\ th[Poller].idx < Len(callbacks[th[Poller].dev])
    => /\ th[Poller].new_pos # hist.seen[th[Poller].dev]
       /\ th[Poller].old_pos = hist.seen[th[Poller].dev]

\* C4: the poller thread ends only in a step that finds the stop flag
\* set; and while an observer is registered for a device at position z
\* and the poller runs unstopped, the poller gets to invoke that observer
\* with position z, unless the device moves again or a stop is requested.
C4_PollerEndsOnlyOnStop ==
  [][pollState = "running" /\ pollState' = "dead" => pollStop]_vars

C4_Delivering(o, d, z) ==
  /\ At(Poller, "p_dispatch")
  /\ th[Poller].dev = d
  /\ th[Poller].idx < Len(callbacks[d])
  /\ callbacks[d][th[Poller].idx + 1] = o
  /\ th[Poller].new_pos = Position(z)

C4_PollerSurvivesFailures ==
  /\ C4_PollerEndsOnlyOnStop
  /\ \A d \in Watched, z \in Positions :
       (pollState = "running" /\ ~pollStop /\ net.pos[d] = z)
         ~> (C4_Delivering("a", d, z) \/ pollStop \/ net.pos[d] # z)

\* After a failed iteration the poller invokes an observer with the
\* position a device has moved to.
C4_Witness ==
  /\ net.fails > 0
  /\ \E d \in Watched : C4_Delivering("a", d, 1) /\ net.pos[d] = 1

\* C5: the observers the poller invokes for a device in one iteration are
\* those registered for it when the iteration's snapshot was taken, in
\* that order, whatever is added or removed meanwhile.
C5_SnapshotDispatch ==
  At(Poller, "p_dispatch")
    => LET snapshot == hist.lists[th[Poller].dev]
       IN  /\ IsPrefix(hist.fired, snapshot)
           /\ th[Poller].idx >= Len(callbacks[th[Poller].dev])
                => hist.fired = snapshot

\* C6: a transport request is in progress only on the handle the session
\* holds, which is open; and an operation that called into a session
\* without a handle has the not-open error and made no request.
C6_RequestsNeedHandle ==
  /\ \A t \in Threads :
       InRequest(t) => h # 0 /\ th[t].harg = h /\ h \in lib.open
  /\ \A t \in Callers :
       h = 0 /\ (At(t, "is_busy_1") \/ At(t, "is_busy_2"))
          => th[t].exc = NotOpen /\ th[t].harg = 0

\* After close() an is_busy has failed with the not-open error.
C6_Witness ==
  \E t \in Callers :
     /\ At(t, "is_busy_1")
     /\ th[t].exc = NotOpen
     /\ lib.closes = << 1 >>

\* C7: every call of the transport close primitive is given an open
\* handle: no close() calls it for a session already closed, and no
\* handle is released twice.
C7_CloseOnce ==
  \A k \in 1 .. Len(lib.closes) :
     /\ lib.closes[k] # 0
     /\ \A j \in 1 .. (k - 1) : lib.closes[j] # lib.closes[k]

\* C8: when list_devices or recv_all returns or raises, the stored timeout
\* and the transport's timeout are what the stored timeout was when the
\* operation started.
C8_Leaving(t) ==
  /\ th[t].pc \in {"ld_try", "ld_fin", "ra_try", "ra_fin"}
  /\ th[t].cs = "none"
  /\ th'[t].pc = "idle"

C8_TimeoutRestored ==
  [][\A t \in Callers :
       C8_Leaving(t) => /\ self_timeout' = th[t].old_timeout
                        /\ lib'.timeout = th[t].old_timeout]_vars

\* C9: an error of get_pos that is not code -5 or -6, and an error of
\* recv that is not code -3, leaves the loop and is the error list_devices
\* or recv_all raises.
C9_Unexpected(t) ==
  \/ At(t, "ld_got") /\ Raised(t) /\ ~IsAbsence(th[t].exc)
  \/ At(t, "ra_got") /\ Raised(t) /\ ~BreaksLoop(th[t].exc)

C9_OtherErrorsPropagate ==
  [][\A t \in Callers :
       C9_Unexpected(t) /\ th'[t] # th[t]
         => th'[t].pc \in {"ld_fin", "ra_fin"} /\ th'[t].pend = th[t].exc]_vars

\* C10: when recv_all returns, the IDs it returns are exactly the IDs of
\* the devices whose packets its recv calls drained.
C10_ReturnsDrained ==
  \A t \in Callers :
     At(t, "ra_fin") /\ ~Raised(t) /\ th[t].pend = NoExc
        => th[t].devset = th[t].drained

\* The IDs below n that respond to a probe, in ascending order
RECURSIVE Responding(_)
Responding(n) ==
  IF n = 0 THEN << >>
  ELSE IF (n - 1) \in net.present THEN Append(Responding(n - 1), n - 1)
                                  ELSE Responding(n - 1)

\* C11: list_devices probes the IDs 0, 1, ... below min(max_id, ceiling)
\* in ascending order; after the probe of ID i its list holds, ascending,
\* exactly the responding IDs below i, and when the scan ends without an
\* error the list holds exactly the responding IDs below the limit.
C11_ListsResponding ==
  \A t \in Callers :
     /\ At(t, "ld_got") => /\ th[t].i < Min(th[t].max_id, LIBUMP_MAX_MANIPULATORS)
                           /\ th[t].devs = Responding(th[t].i)
     /\ At(t, "ld_fin") /\ th[t].pend = NoExc
          => th[t].devs = Responding(Min(th[t].max_id, LIBUMP_MAX_MANIPULATORS))

\* A scan of two IDs ends with device 0 left out and device 1 listed.
C11_Witness ==
  \E t \in Callers :
     /\ At(t, "ld_fin")
     /\ th[t].pend = NoExc
     /\ ~Raised(t)
     /\ th[t].max_id = 2
     /\ net.present = {1}
     /\ th[t].devs = << 1 >>

\* C12: a thread in get_pos with timeout 0 is never inside a transport
\* request, neither for the position nor for the axis count.
C12_CachedReadNoRequest ==
  \A t \in Threads :
     th[t].pc \in {"get_pos_r", "axis_count_r"} /\ th[t].timeout = 0
        => ~InRequest(t)

\* C13: a thread sends the axis-count query for a device (one that was
\* given no manual axis count) only when nothing is cached for that device,
\* so a device whose count has been cached is never queried again.
C13_Sends(t) ==
  /\ th[t].fn = "ump_get_axis_count_ext"
  /\ th[t].cs = "acq"
  /\ th'[t].cs = "inflight"
  /\ hist.override[th[t].args[1]] = None

C13_QueryOnlyUncached ==
  [][\A t \in Threads :
       C13_Sends(t) => axis_counts[th[t].args[1]] = None]_vars

\* C20: when get_pos, its position fetched, asks axis_count for a device
\* that was given a manual axis count n and returns, the position it
\* returns has n coordinates.
C20_Returns(t) ==
  /\ At(t, "get_pos_r")
  /\ ~Raised(t)
  /\ hist.override[th[t].dev] # None
  /\ th'[t].pc = "get_pos_done"

C20_ManualAxesRule ==
  [][\A t \in Callers :
       C20_Returns(t)
         => Len(th'[t].ret[1]) = hist.override[th[t].dev][1]]_vars

\* C14: whenever no caller thread is inside set_timeout, list_devices or
\* recv_all, on an open session whose transport has never failed, the
\* stored timeout is the timeout the transport has.
C14_TimeoutsAgree ==
  (/\ \A t \in Callers : Idle(t)
   /\ net.fails = 0
   /\ h # 0)
     => self_timeout = lib.timeout

\* C15: once a stop has been requested of the running poller the request
\* stays, whatever is called on the poller, until the poller has ended.
C15_StopStays ==
  [][pollState = "running" /\ pollStop => pollStop']_vars

\* C18: the poller requests a position only for a device that had at
\* least one observer when the iteration's snapshot was taken.
C18_FetchOnlyObserved ==
  th[Poller].pc = "get_pos_r" /\ th[Poller].cs # "none"
    => hist.lists[th[Poller].dev] # << >>

\* C16: at most one UMP object with an open transport handle exists.
OpenSessions == (IF h # 0 THEN 1 ELSE 0) + others

C16_OneOpenSession == OpenSessions <= 1

\* C17: from the move request of goto_pos until its receive request has
\* returned, the thread owns the session lock and no other thread is
\* inside a transport request; the move request comes first and the
\* receive request, with time limit 1, second; and a goto_pos with block
\* gets past its wait only after is_busy has answered false.
C17_Moving(t) == th[t].pc \in {"goto_recv", "goto_sent"}

C17_MoveThenReceive ==
  \A t \in Callers :
     /\ C17_Moving(t)
          => /\ lock.owner = t
             /\ \A u \in Threads \ {t} : ~InRequest(u)
     /\ th[t].pc = "goto_recv" => th[t].fn = "ump_goto_position_ext2"
     /\ th[t].pc = "goto_sent"
          => th[t].fn = "ump_receive" /\ th[t].args = << 1 >>
     /\ "goto_done" \in {th[t].pc} \cup {th[t].stk[k] : k \in 1 .. Len(th[t].stk)}
          => th[t].block /\ th[t].busy = Some(FALSE)

\* A goto_pos with block is past its wait, after is_busy answered false,
\* and has read the position again.
C17_Witness ==
  \E t \in Callers :
     /\ At(t, "goto_done")
     /\ ~Raised(t)
     /\ th[t].block
     /\ th[t].busy = Some(FALSE)

\* C19: the move request carries, for every axis the device has, a speed
\* of at least 32, and speed 0 for every further axis up to 4.
AxesPresent(dev) == IF has_axis_count THEN AxesOf(dev) ELSE DefaultAxes

C19_SpeedVector ==
  \A t \in Callers :
     th[t].fn = "ump_goto_position_ext2" /\ th[t].cs = "inflight"
       => \A k \in 1 .. 4 :
            IF k <= AxesPresent(th[t].args[1]) THEN th[t].args[3][k] >= 32
                                              ELSE th[t].args[3][k] = 0

\* C21: from the moment the receive request of a recv() has drained a
\* packet until recv() reads the ID it returns, no step of another thread
\* changes the last-received device ID.
C21_Drained(t) ==
  /\ At(t, "recv_r")
  /\ th[t].stk = << "idle" >>
  /\ ~Raised(t)
  /\ th[t].rval = 1

C21_RecvOwnPacket ==
  [][\A t \in Callers :
       C21_Drained(t) /\ th'[t] = th[t]
         => lib'.last_device_received = lib.last_device_received]_vars

\* C22: no thread holds the observer-registration lock while it holds or
\* asks for the session lock, nor holds the session lock while it asks for
\* the registration lock; and every thread that waits for one of the two
\* locks eventually holds it.
WaitsSession(t) == th[t].cs = "acq"
WaitsRegistration(t) ==
  \/ At(t, "cb_add")
  \/ At(t, "cb_rm")
  \/ t = Poller /\ At(t, "p_snap") /\ ~Raised(t)

C22_NoNesting ==
  \A t \in Threads :
     /\ plock = t => lock.owner # t /\ th[t].cs = "none"
     /\ lock.owner = t => ~WaitsRegistration(t)

=============================================================================
